---- MODULE Spec2Model ----
(***************************************************************************)
(* Property Matcher API (src/main.py): a FastAPI relay that forwards a     *)
(* listings search to an upstream agent/workflow "runs" endpoint.          *)
(*                                                                         *)
(* Text is modelled as a sequence of text pieces whose concatenation is    *)
(* the text (an identifier is a sequence of its characters), so that       *)
(* prefixes, slices and concatenations are computed as the code computes   *)
(* them.  JSON and Python values are tagged records.                       *)
(***************************************************************************)
EXTENDS Integers, Sequences, FiniteSets, TLC

\* ---------------------------------------------------------------- bounds
\* Longest target identifier the resolver is applied to (SpecResolver).
MaxIdLen == 4

\* ------------------------------------------------------- program constants
DefaultLimit == 8
UpstreamTimeout == 120
Unauthorized == 401
InternalError == 500

\* ------------------------------------------------------------ JSON values
JNull == [t |-> "null"]
JInt(i) == [t |-> "int", i |-> i]
JStr(s) == [t |-> "str", s |-> s]
JBool(b) == [t |-> "bool", b |-> b]
JList(l) == [t |-> "list", l |-> l]
JObj(o) == [t |-> "obj", o |-> o]
\* A float that json.loads produced from an out-of-range or NaN literal.
NonFinite == [t |-> "float", f |-> "inf"]

Ok(v) == [ok |-> TRUE, v |-> v]
Err == [ok |-> FALSE]

Min(a, b) == IF a <= b THEN a ELSE b

\* -------------------------------------------------------------------- Env
VARIABLES
    env,        \* the environment-sourced settings, read once at start
    pc,         \* where the current inbound call is
    request,    \* the current inbound call: x-api-key header and JSON body
    payload,    \* the AgentRequest the framework built from the body
    outbound,   \* the upstream calls issued for the current inbound call
    upstream,   \* what came back from the upstream call
    response,   \* the relay's response to the current inbound call
    debug,      \* the last response of GET /debug/config
    identifier, \* argument of a direct application of runs_url_for
    resolved    \* its result

vars == <<env, pc, request, payload, outbound, upstream, response,
          debug, identifier, resolved>>

\* os.getenv("OPENAI_BASE", "https://api.openai.com/v1")
DefaultBase == "https://api.openai.com/v1"
OPENAI_BASE == env.OPENAI_BASE

\* ----------------------------------------------------------------- Models
DigitValue ==
    [d \in {"0", "1", "2", "3", "4", "5", "6", "7", "8", "9"} |->
        CASE d = "0" -> 0 [] d = "1" -> 1 [] d = "2" -> 2 [] d = "3" -> 3
          [] d = "4" -> 4 [] d = "5" -> 5 [] d = "6" -> 6 [] d = "7" -> 7
          [] d = "8" -> 8 [] d = "9" -> 9]

IsNumeric(s) == Len(s) > 0 /\ \A i \in 1..Len(s) : s[i] \in DOMAIN DigitValue

RECURSIVE ParseInt(_)
ParseInt(s) ==
    IF s = <<>> THEN 0
    ELSE 10 * ParseInt(SubSeq(s, 1, Len(s) - 1)) + DigitValue[s[Len(s)]]

\* Optional[int] = default: a JSON integer is kept, a string of digits is
\* coerced to the integer it spells, null is None, anything else is refused.
OptionalInt(o, k, default) ==
    IF k \notin DOMAIN o THEN Ok(default)
    ELSE CASE o[k].t = "null" -> Ok(JNull)
           [] o[k].t = "int" -> Ok(o[k])
           [] o[k].t = "str" ->
                IF IsNumeric(o[k].s) THEN Ok(JInt(ParseInt(o[k].s))) ELSE Err
           [] OTHER -> Err

\* Optional[str] = default
OptionalStr(o, k, default) ==
    IF k \notin DOMAIN o THEN Ok(default)
    ELSE CASE o[k].t = "null" -> Ok(JNull)
           [] o[k].t = "str" -> Ok(o[k])
           [] OTHER -> Err

\* Optional[List[str]] = default
OptionalStrList(o, k, default) ==
    IF k \notin DOMAIN o THEN Ok(default)
    ELSE CASE o[k].t = "null" -> Ok(JNull)
           [] o[k].t = "list" ->
                IF \A i \in 1..Len(o[k].l) : o[k].l[i].t = "str"
                THEN Ok(o[k]) ELSE Err
           [] OTHER -> Err

\* class Criteria(BaseModel): the model built from a JSON object; fields the
\* class does not declare are ignored.
Criteria(o) ==
    LET location == OptionalStr(o, "location", JNull)
        min_price == OptionalInt(o, "min_price", JNull)
        max_price == OptionalInt(o, "max_price", JNull)
        beds_min == OptionalInt(o, "beds_min", JNull)
        baths_min == OptionalInt(o, "baths_min", JNull)
        property_types == OptionalStrList(o, "property_types", JList(<<>>))
        keywords == OptionalStr(o, "keywords", JNull)
    IN  IF /\ location.ok /\ min_price.ok /\ max_price.ok /\ beds_min.ok
           /\ baths_min.ok /\ property_types.ok /\ keywords.ok
        THEN Ok([location |-> location.v, min_price |-> min_price.v,
                 max_price |-> max_price.v, beds_min |-> beds_min.v,
                 baths_min |-> baths_min.v,
                 property_types |-> property_types.v,
                 keywords |-> keywords.v])
        ELSE Err

\* class AgentRequest(BaseModel): criteria is required.
AgentRequest(body) ==
    IF "criteria" \notin DOMAIN body THEN Err
    ELSE IF body.criteria.t # "obj" THEN Err
    ELSE
    LET conversation_id ==
            OptionalStr(body, "conversation_id", JStr(<<"listing-run">>))
        limit == OptionalInt(body, "limit", JInt(DefaultLimit))
        criteria == Criteria(body.criteria.o)
    IN  IF conversation_id.ok /\ limit.ok /\ criteria.ok
        THEN Ok([conversation_id |-> conversation_id.v, limit |-> limit.v,
                 criteria |-> criteria.v])
        ELSE Err

\* ---------------------------------------------------------------- Helpers
StartsWith(s, prefix) ==
    Len(s) >= Len(prefix) /\ SubSeq(s, 1, Len(prefix)) = prefix

\* runs_url_for testing the prefix without its underscore
runs_url_for_wf(id) ==
    IF StartsWith(id, <<"w", "f">>)
    THEN <<OPENAI_BASE, "/workflows/">> \o id \o <<"/runs">>
    ELSE <<OPENAI_BASE, "/agents/">> \o id \o <<"/runs">>

runs_url_for(id) ==
    IF StartsWith(id, <<"w", "f", "_">>)
    THEN <<OPENAI_BASE, "/workflows/">> \o id \o <<"/runs">>
    ELSE IF StartsWith(id, <<"a", "g", "t", "_">>)
    THEN <<OPENAI_BASE, "/agents/">> \o id \o <<"/runs">>
    ELSE <<OPENAI_BASE, "/agents/">> \o id \o <<"/runs">>

\* (not identifier) for a string kept as its characters, (not s) for a string
IsEmpty(s) == s = <<>>

\* HTTPException(status_code, detail)
HTTPException(status_code, detail) ==
    [raised |-> TRUE, status_code |-> status_code, detail |-> detail]
NoError == [raised |-> FALSE]

\* require_env testing the identifier before the key
require_env_swapped(e) ==
    IF IsEmpty(e.LISTINGS_AGENT_ID)
    THEN HTTPException(InternalError, JStr(<<"LISTINGS_AGENT_ID is not set">>))
    ELSE IF e.OPENAI_API_KEY = ""
    THEN HTTPException(InternalError, JStr(<<"OPENAI_API_KEY is not set">>))
    ELSE NoError

require_env(e) ==
    IF e.OPENAI_API_KEY = ""
    THEN HTTPException(InternalError, JStr(<<"OPENAI_API_KEY is not set">>))
    ELSE IF IsEmpty(e.LISTINGS_AGENT_ID)
    THEN HTTPException(InternalError, JStr(<<"LISTINGS_AGENT_ID is not set">>))
    ELSE NoError

build_openai_headers(e) ==
    LET names == {"Authorization", "Content-Type", "OpenAI-Beta"}
                 \cup (IF e.OPENAI_PROJECT # "" THEN {"OpenAI-Project"} ELSE {})
                 \cup (IF e.OPENAI_ORG # "" THEN {"OpenAI-Organization"} ELSE {})
    IN  [h \in names |->
            CASE h = "Authorization" -> <<"Bearer ", e.OPENAI_API_KEY>>
              [] h = "Content-Type" -> <<"application/json">>
              [] h = "OpenAI-Beta" -> <<"agents=v1,workflows=v1">>
              [] h = "OpenAI-Project" -> <<e.OPENAI_PROJECT>>
              [] h = "OpenAI-Organization" -> <<e.OPENAI_ORG>>]

\* ------------------------------------------------------ framework responses
JsonBody(v) == [media |-> "application/json", json |-> v]
TextBody(text) == [media |-> "text/plain", text |-> text]
NoResponse == [status |-> 0, body |-> [media |-> "none"]]

\* The framework's answer to a raised HTTPException: its status code and the
\* JSON object {"detail": detail}.
ExceptionResponse(exc) ==
    [status |-> exc.status_code, body |-> JsonBody(JObj([detail |-> exc.detail]))]

\* The framework's answer to a body that is no AgentRequest: the handler is
\* not called.
ValidationErrorResponse ==
    [status |-> 422, body |-> JsonBody(JObj([detail |-> JStr(<<"validation error">>)]))]

\* json.dumps(..., allow_nan=False) refuses a value holding a float that is
\* not finite.
RECURSIVE HasNonFinite(_)
HasNonFinite(v) ==
    CASE v.t = "float" -> TRUE
      [] v.t = "obj" -> \E k \in DOMAIN v.o : HasNonFinite(v.o[k])
      [] v.t = "list" -> \E i \in 1..Len(v.l) : HasNonFinite(v.l[i])
      [] OTHER -> FALSE

\* JSONResponse(content): rendering raises ValueError for a content that
\* json.dumps refuses; raised outside the handler's try block, the framework
\* answers it with its plain 500.
JSONResponse(content) ==
    IF HasNonFinite(content)
    THEN [status |-> 500, body |-> TextBody("Internal Server Error")]
    ELSE [status |-> 200, body |-> JsonBody(content)]

\* dict(exclude_none=True)
dict_exclude_none(model) ==
    JObj([k \in {x \in DOMAIN model : model[x] # JNull} |-> model[k]])

\* payload.criteria.dict(): every declared field, None as null
dict(model) == JObj(model)

\* ---------------------------------------------------------------- upstream
\* What requests.post can come back with: a response (status and raw body
\* text) or an exception (described by str(e)).
NotFoundText == "{\"error\":\"not found\"}"
ListingsText == "{\"listings\":[]}"
OverflowText == "{\"price\":1e999}"
HtmlText == "<html>Bad Gateway</html>"

UpstreamStatuses == {200, 304, 404, 500}
UpstreamTexts == {NotFoundText, ListingsText, OverflowText, HtmlText}
UpstreamExceptions == {"Read timed out. (read timeout=120)", "Connection refused"}

NoReply == [kind |-> "none"]
Reply(status, text) == [kind |-> "response", status_code |-> status, text |-> text]
Raised(e) == [kind |-> "exception", e |-> e]

\* resp.ok
ok(resp) == resp.status_code < 400

\* resp.json(): the body decoded by json.loads, which reads 1e999 as inf and
\* raises on text that is no JSON.
json(resp) ==
    CASE resp.text = NotFoundText -> Ok(JObj([error |-> JStr(<<"not found">>)]))
      [] resp.text = ListingsText -> Ok(JObj([listings |-> JList(<<>>)]))
      [] resp.text = OverflowText -> Ok(JObj([price |-> NonFinite]))
      [] OTHER -> [ok |-> FALSE, e |-> "Expecting value: line 1 column 1 (char 0)"]

\* ------------------------------------------------------------------ Routes
\* debug_config reporting the key itself for has_openai_key
debug_config_leak(e) ==
    [api_version |-> JStr(<<"1.3.0">>),
     id_prefix |->
        IF ~IsEmpty(e.LISTINGS_AGENT_ID)
        THEN JStr(SubSeq(e.LISTINGS_AGENT_ID, 1, Min(3, Len(e.LISTINGS_AGENT_ID))))
        ELSE JNull,
     openai_runs_url |->
        IF ~IsEmpty(e.LISTINGS_AGENT_ID)
        THEN JStr(runs_url_for(e.LISTINGS_AGENT_ID)) ELSE JNull,
     has_openai_key |-> JStr(<<e.OPENAI_API_KEY>>),
     has_project_header |-> JBool(e.OPENAI_PROJECT # ""),
     has_org_header |-> JBool(e.OPENAI_ORG # "")]

debug_config(e) ==
    LET url == IF ~IsEmpty(e.LISTINGS_AGENT_ID)
               THEN JStr(runs_url_for(e.LISTINGS_AGENT_ID)) ELSE JNull
    IN  [api_version |-> JStr(<<"1.3.0">>),
         id_prefix |->
            IF ~IsEmpty(e.LISTINGS_AGENT_ID)
            THEN JStr(SubSeq(e.LISTINGS_AGENT_ID, 1, Min(3, Len(e.LISTINGS_AGENT_ID))))
            ELSE JNull,
         openai_runs_url |-> url,
         has_openai_key |-> JBool(e.OPENAI_API_KEY # ""),
         has_project_header |-> JBool(e.OPENAI_PROJECT # ""),
         has_org_header |-> JBool(e.OPENAI_ORG # "")]

\* x-api-key as request.headers.get returns it
NoHeader == [present |-> FALSE]
Header(v) == [present |-> TRUE, value |-> v]

\* The shared-secret check at the head of run_listings_agent.
GateRejects(e, hdr) ==
    /\ e.PUBLIC_CALLER_KEY # ""
    /\ \/ ~hdr.present
       \/ hdr.value = ""
       \/ hdr.value # e.PUBLIC_CALLER_KEY

\* The request passed to requests.post.
OutboundCall(e, p) ==
    [url |-> runs_url_for(e.LISTINGS_AGENT_ID),
     headers |-> build_openai_headers(e),
     json |-> [input_as_text |->
                  <<JStr(<<"Find up to ">>), p.limit,
                    JStr(<<" Qu\\u00e9bec real-estate listings based on: ">>),
                    dict(p.criteria)>>,
               input_variables |-> dict(p.criteria)],
     timeout |-> UpstreamTimeout]

NoPayload == Err

\* POST /agent/listings up to the upstream call.  The framework builds
\* payload from the body before it calls the handler; the handler checks the
\* shared secret, then the settings, then issues the call.
Receive(hdr, body) ==
    /\ pc = "idle"
    /\ request' = [x_api_key |-> hdr, body |-> body]
    /\ upstream' = NoReply
    /\ LET p == AgentRequest(body)
       IN  IF ~p.ok
           THEN /\ payload' = NoPayload
                /\ pc' = "invalid_body"
                /\ response' = ValidationErrorResponse
                /\ outbound' = <<>>
           ELSE /\ payload' = p
                /\ IF GateRejects(env, hdr)
                   THEN /\ pc' = "access_denied"
                        /\ response' = ExceptionResponse(HTTPException(Unauthorized,
                                            JStr(<<"Invalid or missing x-api-key">>)))
                        /\ outbound' = <<>>
                   ELSE IF require_env(env).raised
                   THEN /\ pc' = "configuration_missing"
                        /\ response' = ExceptionResponse(require_env(env))
                        /\ outbound' = <<>>
                   ELSE /\ pc' = "dispatched"
                        /\ response' = NoResponse
                        /\ outbound' = Append(outbound, OutboundCall(env, p.v))
    /\ UNCHANGED <<env, debug, identifier, resolved>>

\* UpstreamResponds without "except HTTPException: raise": the upstream's
\* error is caught by the generic handler.
UpstreamRespondsGeneric(status, text) ==
    /\ pc = "dispatched"
    /\ LET resp == Reply(status, text)
       IN  /\ upstream' = resp
           /\ IF ~ok(resp)
              THEN /\ pc' = "upstream_error"
                   /\ response' = ExceptionResponse(HTTPException(InternalError,
                                    JStr(<<"Agent request failed: ", resp.text>>)))
              ELSE IF ~json(resp).ok
              THEN /\ pc' = "transport_error"
                   /\ response' = ExceptionResponse(HTTPException(InternalError,
                                    JStr(<<"Agent request failed: ", json(resp).e>>)))
              ELSE /\ pc' = "succeeded"
                   /\ response' = JSONResponse(JObj(
                                    [conversation_id |-> payload.v.conversation_id,
                                     criteria |-> dict(payload.v.criteria),
                                     agent_output |-> json(resp).v]))
    /\ UNCHANGED <<env, request, payload, outbound, debug, identifier, resolved>>

\* The rest of run_listings_agent once requests.post has returned resp.
UpstreamResponds(status, text) ==
    /\ pc = "dispatched"
    /\ LET resp == Reply(status, text)
       IN  /\ upstream' = resp
           /\ IF ~ok(resp)
              THEN /\ pc' = "upstream_error"
                   /\ response' = ExceptionResponse(
                                    HTTPException(resp.status_code, JStr(<<resp.text>>)))
              ELSE IF ~json(resp).ok
              THEN /\ pc' = "transport_error"
                   /\ response' = ExceptionResponse(HTTPException(InternalError,
                                    JStr(<<"Agent request failed: ", json(resp).e>>)))
              ELSE /\ pc' = "succeeded"
                   /\ response' = JSONResponse(JObj(
                                    [conversation_id |-> payload.v.conversation_id,
                                     criteria |-> dict(payload.v.criteria),
                                     agent_output |-> json(resp).v]))
    /\ UNCHANGED <<env, request, payload, outbound, debug, identifier, resolved>>

\* UpstreamFails retrying the call once before it gives up
UpstreamFailsRetry(e) ==
    /\ pc = "dispatched"
    /\ IF Len(outbound) < 2
       THEN /\ outbound' = Append(outbound, outbound[1])
            /\ UNCHANGED <<pc, upstream, response>>
       ELSE /\ upstream' = Raised(e)
            /\ pc' = "transport_error"
            /\ response' = ExceptionResponse(HTTPException(InternalError,
                                JStr(<<"Agent request failed: ", e>>)))
            /\ UNCHANGED outbound
    /\ UNCHANGED <<env, request, payload, debug, identifier, resolved>>

\* UpstreamFails answering with a gateway status instead of the fixed 500
UpstreamFailsBadGateway(e) ==
    /\ pc = "dispatched"
    /\ upstream' = Raised(e)
    /\ pc' = "transport_error"
    /\ response' = ExceptionResponse(HTTPException(502,
                        JStr(<<"Agent request failed: ", e>>)))
    /\ UNCHANGED <<env, request, payload, outbound, debug, identifier, resolved>>

\* The rest of run_listings_agent once requests.post has raised e (timeout,
\* connection failure).
UpstreamFails(e) ==
    /\ pc = "dispatched"
    /\ upstream' = Raised(e)
    /\ pc' = "transport_error"
    /\ response' = ExceptionResponse(HTTPException(InternalError,
                        JStr(<<"Agent request failed: ", e>>)))
    /\ UNCHANGED <<env, request, payload, outbound, debug, identifier, resolved>>

Terminal == {"invalid_body", "access_denied", "configuration_missing",
             "succeeded", "upstream_error", "transport_error"}

NoRequest == [x_api_key |-> NoHeader, body |-> [t |-> "none"]]

\* The response is sent; the request's objects are discarded.
Complete ==
    /\ pc \in Terminal
    /\ pc' = "idle"
    /\ request' = NoRequest
    /\ payload' = NoPayload
    /\ outbound' = <<>>
    /\ upstream' = NoReply
    /\ response' = NoResponse
    /\ UNCHANGED <<env, debug, identifier, resolved>>

\* GET /debug/config
DebugConfig ==
    /\ debug' = Ok(debug_config(env))
    /\ UNCHANGED <<env, pc, request, payload, outbound, upstream, response,
                   identifier, resolved>>

\* runs_url_for applied to the configured identifier
Resolve ==
    /\ identifier' = Ok(env.LISTINGS_AGENT_ID)
    /\ resolved' = Ok(runs_url_for(env.LISTINGS_AGENT_ID))
    /\ UNCHANGED <<env, pc, request, payload, outbound, upstream, response, debug>>

\* ------------------------------------------------------------------ inputs
Absent == [t |-> "absent"]
\* The JSON object holding the members that are given.
Members(f) == [k \in {x \in DOMAIN f : f[x] # Absent} |-> f[k]]

Digits(n) ==
    CASE n = 200000 -> <<"2", "0", "0", "0", "0", "0">>
      [] n = 3 -> <<"3">>

CriteriaInputs ==
    { Members([location |-> a, min_price |-> b, max_price |-> c, beds_min |-> d,
               baths_min |-> e, property_types |-> f, keywords |-> g, garage |-> h]) :
        a \in {Absent, JStr(<<"Quebec City">>)},
        b \in {Absent, JInt(200000), JStr(Digits(200000)), JStr(<<"cheap">>)},
        c \in {JInt(500000)},
        d \in {JInt(2)},
        e \in {Absent, JNull},
        f \in {Absent, JList(<<JStr(<<"condo">>)>>)},
        g \in {Absent},
        h \in {Absent, JBool(TRUE)} }

BodyInputs ==
    { Members([conversation_id |-> a, limit |-> b, criteria |-> c]) :
        a \in {Absent, JNull, JStr(<<"conv-1">>)},
        b \in {Absent, JStr(Digits(3))},
        c \in {Absent} \cup {JObj(o) : o \in CriteriaInputs} }

HeaderInputs == {NoHeader, Header(""), Header("s3cret"), Header("wrong")}

WorkflowId == <<"w", "f", "_", "1">>
AgentId == <<"a", "g", "t", "_", "1">>
OtherId == <<"x", "1">>

Envs ==
    { [OPENAI_API_KEY |-> k, LISTINGS_AGENT_ID |-> i, PUBLIC_CALLER_KEY |-> s,
       OPENAI_BASE |-> DefaultBase, OPENAI_PROJECT |-> po[1], OPENAI_ORG |-> po[2]] :
        k \in {"", "sk-1"},
        i \in {<<>>, WorkflowId, AgentId},
        s \in {"", "s3cret"},
        po \in {<<"", "">>, <<"proj_1", "org_1">>} }

NoResult == [ok |-> FALSE]

InitCall ==
    /\ pc = "idle"
    /\ request = NoRequest
    /\ payload = NoPayload
    /\ outbound = <<>>
    /\ upstream = NoReply
    /\ response = NoResponse
    /\ debug = NoResult
    /\ identifier = NoResult
    /\ resolved = NoResult

\* ---------------------------------------------------- POST /agent/listings
Init == env \in Envs /\ InitCall

Next ==
    \/ \E hdr \in HeaderInputs, body \in BodyInputs : Receive(hdr, body)
    \/ \E status \in UpstreamStatuses, text \in UpstreamTexts :
            UpstreamResponds(status, text)
    \/ \E e \in UpstreamExceptions : UpstreamFails(e)
    \/ Complete

Spec == Init /\ [][Next]_vars

\* The upstream call returns or raises within its timeout.
UpstreamReturns ==
    \/ \E status \in UpstreamStatuses, text \in UpstreamTexts :
            UpstreamResponds(status, text)
    \/ \E e \in UpstreamExceptions : UpstreamFails(e)

FairSpec == Spec /\ WF_vars(UpstreamReturns)

\* ------------------------------------------------------- GET /debug/config
DebugEnvs ==
    [OPENAI_API_KEY : {"", "sk-1", "sk-2"},
     LISTINGS_AGENT_ID : {<<>>, <<"w", "f">>, WorkflowId, <<"w", "f", "_", "2">>, AgentId},
     PUBLIC_CALLER_KEY : {"", "s3cret", "hunter2"},
     OPENAI_BASE : {DefaultBase, "http://localhost:8080/v1"},
     OPENAI_PROJECT : {"", "proj_1", "proj_2"},
     OPENAI_ORG : {"", "org_1", "org_2"}]

InitDebug == env \in DebugEnvs /\ InitCall

NextDebug == DebugConfig

SpecDebug == InitDebug /\ [][NextDebug]_vars

\* ------------------------------------------------------------ runs_url_for
Alphabet == {"w", "f", "_", "a", "g", "t", "1"}
Identifiers == UNION {[1..n -> Alphabet] : n \in 0..MaxIdLen}

ResolverEnvs ==
    [OPENAI_API_KEY : {"sk-1"},
     LISTINGS_AGENT_ID : Identifiers,
     PUBLIC_CALLER_KEY : {""},
     OPENAI_BASE : {DefaultBase, "http://localhost:8080/v1"},
     OPENAI_PROJECT : {""},
     OPENAI_ORG : {""}]

MinimalBody == [criteria |-> JObj(<<>>)]

InitResolver == env \in ResolverEnvs /\ InitCall

NextResolver ==
    \/ Resolve
    \/ Receive(NoHeader, MinimalBody)

SpecResolver == InitResolver /\ [][NextResolver]_vars

\* ================================================================== claims
RelayTerminal == {"succeeded", "upstream_error", "transport_error"}
Detail(r) == r.body.json.o.detail
IsJson(r) == r.body.media = "application/json"
Contains(seq, sub) ==
    \E i \in 1..(Len(seq) - Len(sub) + 1) : SubSeq(seq, i, i + Len(sub) - 1) = sub

\* The call's x-api-key fails the configured shared secret.
FailsGate ==
    /\ env.PUBLIC_CALLER_KEY # ""
    /\ \/ request.x_api_key = NoHeader
       \/ request.x_api_key = Header("")
       \/ request.x_api_key # Header(env.PUBLIC_CALLER_KEY)

\* C1: a call is rejected by the access gate with 401 if and only if a
\* shared secret is configured and the call's x-api-key is missing, empty or
\* different from it; a call the gate rejects issues no upstream call; with
\* no secret configured and the key and identifier set, a call without the
\* header goes on to the upstream call.
C1_GateRejectsIff ==
    pc \in Terminal \cup {"dispatched"} =>
        /\ (pc = "access_denied" /\ response.status = Unauthorized) <=> FailsGate
        /\ pc = "access_denied" => outbound = <<>>
        /\ ( /\ env.PUBLIC_CALLER_KEY = ""
             /\ request.x_api_key = NoHeader
             /\ env.OPENAI_API_KEY # ""
             /\ env.LISTINGS_AGENT_ID # <<>>
             /\ payload.ok ) => Len(outbound) = 1

\* C2 as stated: an upstream response with a non-success status s and raw
\* body b gives the relay's response status s and body exactly b.
C2_BodyExactlyUpstream ==
    (upstream.kind = "response" /\ upstream.status_code >= 400) =>
        /\ response.status = upstream.status_code
        /\ \/ response.body = TextBody(upstream.text)
           \/ json(upstream).ok /\ response.body = JsonBody(json(upstream).v)

\* C2 amended: an upstream response with a status s of 400 or above and raw
\* body b ends the call in upstream_error with the relay's status s and the
\* JSON body {"detail": b}, b carried verbatim as one string; the status is
\* never replaced by the generic 500.
C2_StatusAndDetailPassThrough ==
    (upstream.kind = "response" /\ upstream.status_code >= 400) =>
        /\ pc = "upstream_error"
        /\ response.status = upstream.status_code
        /\ response.body = JsonBody(JObj([detail |-> JStr(<<upstream.text>>)]))

C2_Witness ==
    /\ pc = "upstream_error"
    /\ upstream.status_code = 404
    /\ upstream.text = NotFoundText
    /\ response.status = 404

C3_CallCount ==
    /\ Len(outbound) <= 1
    /\ pc \in RelayTerminal \cup {"dispatched"} <=> Len(outbound) = 1
    /\ pc = "dispatched" => upstream = NoReply /\ response = NoResponse
    /\ pc \in RelayTerminal => upstream # NoReply /\ response # NoResponse

C3_Step ==
    /\ pc = "dispatched" => pc' \in RelayTerminal /\ outbound' = outbound
    /\ pc \in RelayTerminal =>
          /\ pc' = "idle"
          /\ outbound' = <<>>
    /\ pc' \in RelayTerminal => pc = "dispatched"

TransportCauses ==
    UpstreamExceptions \cup {"Expecting value: line 1 column 1 (char 0)"}

C4_TransportForm ==
    /\ ( \/ upstream.kind = "exception"
         \/ upstream.kind = "response" /\ ok(upstream) /\ ~json(upstream).ok )
       <=> pc = "transport_error"
    /\ pc = "transport_error" =>
          /\ response.status = InternalError
          /\ IsJson(response)
          /\ DOMAIN response.body.json.o = {"detail"}
          /\ Len(Detail(response).s) = 2
          /\ Detail(response).s[1] = "Agent request failed: "
          /\ Detail(response).s[2] \in TransportCauses
          /\ upstream.kind = "response" => ~Contains(Detail(response).s, <<upstream.text>>)

\* C4 as stated: a call that cannot complete is answered 500 with
\* 'Agent request failed: <cause>' and no upstream text, and that status is
\* distinct from the status of every upstream_error outcome.
C4_StatusDistinct ==
    /\ C4_TransportForm
    /\ pc = "upstream_error" => response.status # InternalError

\* C4 amended: a call that cannot complete (the call raised, or a response
\* with ok status whose body is no JSON) is answered 500 with
\* 'Agent request failed: <cause>' and no upstream text; an upstream_error
\* outcome has that same status exactly when the upstream answered 500.
C4_TransportIs500 ==
    /\ C4_TransportForm
    /\ pc = "upstream_error" =>
          (response.status = InternalError <=> upstream.status_code = InternalError)

C4_Witness ==
    /\ pc = "transport_error"
    /\ upstream = Raised("Read timed out. (read timeout=120)")
    /\ response.status = 500

RawCriteria == request.body.criteria.o
EchoedCriteria == response.body.json.o.criteria
Succeeded == pc = "succeeded" /\ response.status = 200

\* C5 as stated: the criteria of a success response equals the criteria of
\* the inbound body exactly.
C5_EchoExact == Succeeded => EchoedCriteria = JObj(RawCriteria)

IntFields == {"min_price", "max_price", "beds_min", "baths_min"}
DeclaredFields == IntFields \cup {"location", "property_types", "keywords"}

\* C5 amended: the criteria of a success response is the criteria as
\* validated: exactly the seven declared fields; a field given with a value
\* of its type (or null) carries it, a string of digits given for an integer
\* field is carried as the integer it spells, an omitted field is carried as
\* null ([] for property_types), a field the model does not declare is
\* dropped.
C5_EchoValidated ==
    Succeeded =>
        /\ EchoedCriteria.t = "obj"
        /\ DOMAIN EchoedCriteria.o = DeclaredFields
        /\ \A k \in DeclaredFields :
              LET got == EchoedCriteria.o[k]
              IN  IF k \notin DOMAIN RawCriteria
                  THEN got = (IF k = "property_types" THEN JList(<<>>) ELSE JNull)
                  ELSE IF k \in IntFields /\ RawCriteria[k].t = "str"
                  THEN /\ got.t = "int"
                       /\ RawCriteria[k].s = <<"2", "0", "0", "0", "0", "0">>
                            => got.i = 200000
                  ELSE got = RawCriteria[k]

C5_Witness ==
    /\ Succeeded
    /\ "location" \notin DOMAIN RawCriteria
    /\ "baths_min" \in DOMAIN RawCriteria
    /\ "garage" \in DOMAIN RawCriteria
    /\ "min_price" \in DOMAIN RawCriteria
    /\ RawCriteria.min_price.t = "str"

\* C6: an upstream response with a success status and a decodable body d
\* gives a success response whose agent_output is d, whose conversation_id
\* is the request's ("listing-run" when omitted), and which has no field
\* besides these and criteria.
C6_WrapsDecodedBody ==
    (upstream.kind = "response" /\ upstream.status_code = 200 /\ json(upstream).ok) =>
        /\ response.status = 200
        /\ IsJson(response)
        /\ DOMAIN response.body.json.o = {"conversation_id", "criteria", "agent_output"}
        /\ response.body.json.o.agent_output = json(upstream).v
        /\ response.body.json.o.conversation_id =
              (IF "conversation_id" \in DOMAIN request.body
               THEN request.body.conversation_id
               ELSE JStr(<<"listing-run">>))

ExpectedUrl(id) ==
    IF Len(id) >= 3 /\ id[1] = "w" /\ id[2] = "f" /\ id[3] = "_"
    THEN <<env.OPENAI_BASE, "/workflows/">> \o id \o <<"/runs">>
    ELSE <<env.OPENAI_BASE, "/agents/">> \o id \o <<"/runs">>

\* C7: runs_url_for gives <base>/workflows/<id>/runs for every identifier
\* that starts with wf_ and <base>/agents/<id>/runs for every other one, the
\* empty one included, and the upstream call of POST /agent/listings goes to
\* the resolver's result for the configured identifier.
C7_ResolverRule ==
    /\ resolved.ok =>
          /\ identifier.ok
          /\ resolved.v = ExpectedUrl(identifier.v)
    /\ pc = "dispatched" =>
          /\ Len(outbound) = 1
          /\ outbound[1].url = ExpectedUrl(env.LISTINGS_AGENT_ID)

C7_Witness ==
    /\ resolved.ok
    /\ identifier.v = <<"w", "f", "_", "a">>
    /\ pc = "dispatched"
    /\ Contains(outbound[1].url, <<"/workflows/">>)

SecretSettings == {"OPENAI_API_KEY", "PUBLIC_CALLER_KEY", "OPENAI_PROJECT", "OPENAI_ORG"}
SameButSecretValues(a, b) ==
    /\ a.LISTINGS_AGENT_ID = b.LISTINGS_AGENT_ID
    /\ a.OPENAI_BASE = b.OPENAI_BASE
    /\ \A k \in SecretSettings : (a[k] = "") <=> (b[k] = "")
TextOf(v) == IF v.t = "str" THEN v.s ELSE <<>>

C8_NoSecretValue ==
    /\ \A e2 \in DebugEnvs : SameButSecretValues(env, e2) => debug_config(e2) = debug.v
    /\ \A f \in DOMAIN debug.v, k \in SecretSettings :
          env[k] # "" => ~Contains(TextOf(debug.v[f]), <<env[k]>>)

\* C8 as stated: the response of GET /debug/config is the same for settings
\* that differ only in the values of the secrets, holds the value of none of
\* them, and holds the target identifier only as its first characters in
\* id_prefix.
C8_IdentifierOnlyPrefix ==
    debug.ok =>
        /\ C8_NoSecretValue
        /\ \A f \in DOMAIN debug.v \ {"id_prefix"} :
              env.LISTINGS_AGENT_ID # <<>> =>
                  ~Contains(TextOf(debug.v[f]), env.LISTINGS_AGENT_ID)

\* C8 amended: the response of GET /debug/config is the same for settings
\* that differ only in the values of the secrets and holds the value of none
\* of them; the target identifier appears as its first three characters in
\* id_prefix and in full inside openai_runs_url.
C8_SecretsHiddenIdentifierShown ==
    debug.ok =>
        /\ C8_NoSecretValue
        /\ env.LISTINGS_AGENT_ID # <<>> =>
              /\ \E n \in 1..3 :
                    /\ n = Len(env.LISTINGS_AGENT_ID) \/ n = 3
                    /\ n <= Len(env.LISTINGS_AGENT_ID)
                    /\ debug.v.id_prefix = JStr([i \in 1..n |-> env.LISTINGS_AGENT_ID[i]])
              /\ Contains(TextOf(debug.v.openai_runs_url), env.LISTINGS_AGENT_ID)
        /\ env.LISTINGS_AGENT_ID = <<>> =>
              debug.v.id_prefix = JNull /\ debug.v.openai_runs_url = JNull

C8_Witness ==
    /\ debug.ok
    /\ env.OPENAI_API_KEY = "sk-2"
    /\ env.PUBLIC_CALLER_KEY = "hunter2"
    /\ env.LISTINGS_AGENT_ID = WorkflowId

\* C9: a call that fails the shared secret is answered 401 whatever the
\* settings and whatever the body: no configuration error and no
\* body-validation error is reported to it.
C9_GateBeforeAnythingElse ==
    (pc \in Terminal /\ FailsGate) => response.status = Unauthorized

\* C10: a call that passes the access gate with the API key or the target
\* identifier unset is answered 500 naming the missing setting, the API key
\* first, and issues no upstream call; with both set the check raises
\* nothing.
C10_ConfigurationMissing ==
    (pc \in (Terminal \cup {"dispatched"}) \ {"invalid_body"} /\ ~FailsGate) =>
        /\ env.OPENAI_API_KEY = "" =>
              /\ pc = "configuration_missing"
              /\ response.status = 500
              /\ Detail(response) = JStr(<<"OPENAI_API_KEY is not set">>)
              /\ outbound = <<>>
        /\ (env.OPENAI_API_KEY # "" /\ env.LISTINGS_AGENT_ID = <<>>) =>
              /\ pc = "configuration_missing"
              /\ response.status = 500
              /\ Detail(response) = JStr(<<"LISTINGS_AGENT_ID is not set">>)
              /\ outbound = <<>>
        /\ (env.OPENAI_API_KEY # "" /\ env.LISTINGS_AGENT_ID # <<>>) =>
              pc # "configuration_missing"

C10_Witness ==
    /\ pc = "configuration_missing"
    /\ env.OPENAI_API_KEY = ""
    /\ env.LISTINGS_AGENT_ID = <<>>
    /\ request.x_api_key = Header("s3cret")

====
